---- MODULE Spec2Model ----
(***************************************************************************)
(* Model of rvtools_csv2excel.py: the conversion of a directory of RVTools *)
(* CSV exports into one multi-sheet workbook.                              *)
(*                                                                         *)
(* Python strings are TLA+ strings (Len, SubSeq and \o act on them).       *)
(* Five specifications share the variables:                                *)
(*   Spec      convert_csv_to_excel: the per-file loop, the metadata       *)
(*             sheet, the computed order, the move_sheet loop, the save    *)
(*   SpecName  get_sheet_name_from_filename on one (filename, prefix)      *)
(*   SpecFind  find_csv_files and main's report on one directory           *)
(*   SpecLoad  clean_csv_data on one file                                  *)
(*   SpecSheet the transcription and styling of one table into one sheet   *)
(***************************************************************************)
EXTENDS Integers, Sequences, FiniteSets, TLC

VARIABLES
    \* get_sheet_name_from_filename
    filename, name_prefix, base_name, raw_name, sheet_name, name_pc,
    \* find_csv_files / main
    directory, recursive, find_prefix, find_result, main_out, find_pc,
    \* clean_csv_data
    csv_file, load_result, load_pc,
    \* one worksheet being transcribed and styled
    df, worksheet, sheet_pc,
    \* convert_csv_to_excel
    csv_files, prefix, file_no, workbook, processed_sheets, errors, new_order,
    i, saved, pc

nameVars  == <<filename, name_prefix, base_name, raw_name, sheet_name, name_pc>>
findVars  == <<directory, recursive, find_prefix, find_result, main_out, find_pc>>
loadVars  == <<csv_file, load_result, load_pc>>
sheetVars == <<df, worksheet, sheet_pc>>
convVars  == <<csv_files, prefix, file_no, workbook, processed_sheets, errors,
               new_order, i, saved, pc>>
vars      == <<nameVars, findVars, loadVars, sheetVars, convVars>>

-----------------------------------------------------------------------------
(* Python str operations *)

Max2(a, b) == IF a >= b THEN a ELSE b
Min2(a, b) == IF a <= b THEN a ELSE b

CharAt(s, k) == SubSeq(s, k, k)

\* s[:n]
Take(s, n) == SubSeq(s, 1, Min2(n, Len(s)))

\* s[n:]
Drop(s, n) == SubSeq(s, Min2(n, Len(s)) + 1, Len(s))

\* s.startswith(p)
StartsWith(s, p) == Len(p) <= Len(s) /\ Take(s, Len(p)) = p

\* s.endswith(p)
EndsWith(s, p) == Len(p) <= Len(s) /\ Drop(s, Len(s) - Len(p)) = p

\* str.lower() on one character
LowerChar(c) ==
    LET upper == "ABCDEFGHIJKLMNOPQRSTUVWXYZ"
        lower == "abcdefghijklmnopqrstuvwxyz"
        at == {k \in 1..Len(upper) : CharAt(upper, k) = c}
    IN  IF at = {} THEN c ELSE CharAt(lower, CHOOSE k \in at : TRUE)

RECURSIVE Lower(_)
Lower(s) == IF s = "" THEN "" ELSE LowerChar(CharAt(s, 1)) \o Lower(Drop(s, 1))

\* s.replace(old, ''): every non-overlapping occurrence, left to right
RECURSIVE RemoveAll(_, _)
RemoveAll(s, old) ==
    IF s = "" \/ old = "" THEN s
    ELSE IF StartsWith(s, old) THEN RemoveAll(Drop(s, Len(old)), old)
    ELSE CharAt(s, 1) \o RemoveAll(Drop(s, 1), old)

\* s.rfind(c) as a 1-based index, 0 when c does not occur
RECURSIVE RFindFrom(_, _, _)
RFindFrom(s, c, k) ==
    IF k = 0 THEN 0
    ELSE IF CharAt(s, k) = c THEN k
    ELSE RFindFrom(s, c, k - 1)

RFind(s, c) == RFindFrom(s, c, Len(s))

\* col.strip(): surrounding blanks removed
RECURSIVE LStrip(_)
LStrip(s) == IF s /= "" /\ CharAt(s, 1) = " " THEN LStrip(Drop(s, 1)) ELSE s

RECURSIVE RStrip(_)
RStrip(s) ==
    IF s /= "" /\ CharAt(s, Len(s)) = " " THEN RStrip(Take(s, Len(s) - 1)) ELSE s

Strip(s) == RStrip(LStrip(s))

\* str(n) for an integer n
Digit(d) == CharAt("0123456789", d + 1)

RECURSIVE NatToStr(_)
NatToStr(n) == IF n < 10 THEN Digit(n) ELSE NatToStr(n \div 10) \o Digit(n % 10)

IntToStr(n) == IF n < 0 THEN "-" \o NatToStr(0 - n) ELSE NatToStr(n)

\* c * n
RECURSIVE Repeat(_, _)
Repeat(c, n) ==
    IF n = 0 THEN ""
    ELSE IF n % 2 = 0 THEN LET half == Repeat(c, n \div 2) IN half \o half
    ELSE c \o Repeat(c, n - 1)

\* x in list
InSeq(x, s) == \E k \in 1..Len(s) : s[k] = x

-----------------------------------------------------------------------------
(* get_sheet_name_from_filename *)

\* os.path.basename (posixpath): what follows the last '/'
Basename(p) == Drop(p, RFind(p, "/"))

\* os.path.splitext(p)[0] (genericpath._splitext): the last dot starts the
\* extension unless only dots precede it in the base name
RECURSIVE OnlyDots(_, _, _)
OnlyDots(p, from, to) ==
    IF from >= to THEN TRUE
    ELSE IF CharAt(p, from) /= "." THEN FALSE
    ELSE OnlyDots(p, from + 1, to)

SplitextRoot(p) ==
    LET sepIndex == RFind(p, "/")
        dotIndex == RFind(p, ".")
    IN  IF dotIndex > sepIndex /\ ~OnlyDots(p, sepIndex + 1, dotIndex)
        THEN Take(p, dotIndex - 1)
        ELSE p

\* the characters of r'[\[\]:*?/\\]'
InvalidChars == {"[", "]", ":", "*", "?", "/", "\\"}

\* re.sub(r'[\[\]:*?/\\]', '', s)
RECURSIVE RemoveInvalid(_)
RemoveInvalid(s) ==
    IF s = "" THEN ""
    ELSE IF CharAt(s, 1) \in InvalidChars THEN RemoveInvalid(Drop(s, 1))
    ELSE CharAt(s, 1) \o RemoveInvalid(Drop(s, 1))

\* sheet_name[:31]
MaxTitleLen == 31

\* lines 87-91: the name before it is made valid for Excel
RawSheetName(base, pfx) ==
    IF StartsWith(base, pfx)
    THEN RemoveAll(Drop(base, Len(pfx)), ".csv")
    ELSE SplitextRoot(base)

\* lines 94-95 with the truncation left out (a faulty variant)
SanitizeNoTruncate(s) == RemoveInvalid(s)

\* lines 94-95
Sanitize(s) == Take(RemoveInvalid(s), MaxTitleLen)

get_sheet_name_from_filename(file, pfx) ==
    Sanitize(RawSheetName(Basename(file), pfx))

-----------------------------------------------------------------------------
(* Values that park the variables of the operations a specification leaves out *)

NameIdle ==
    /\ filename = "" /\ name_prefix = "" /\ base_name = ""
    /\ raw_name = "" /\ sheet_name = "" /\ name_pc = "idle"

FindIdle ==
    /\ directory = [exists |-> TRUE, files |-> <<>>, subfiles |-> <<>>]
    /\ recursive = FALSE /\ find_prefix = "" /\ find_result = <<>>
    /\ main_out = "" /\ find_pc = "idle"

NoFile == [path |-> "", bad_byte |-> "none", quote |-> FALSE,
           tok |-> {}, columns |-> <<>>, data |-> <<>>]

NoTable == [columns |-> <<>>, data |-> <<>>]

\* a sheet as create_sheet leaves it; source is the position in csv_files of
\* the file it was created for (0: none), kept for the record
NewSheet(title, source) ==
    [title |-> title, cells |-> <<>>, widths |-> <<>>, freeze_panes |-> "",
     source |-> source]

NoSheet == NewSheet("", 0)

LoadIdle == csv_file = NoFile /\ load_result = <<>> /\ load_pc = "idle"

SheetIdle == df = NoTable /\ worksheet = NoSheet /\ sheet_pc = "idle"

ConvIdle ==
    /\ csv_files = <<>> /\ prefix = "" /\ file_no = 0
    /\ workbook = <<>> /\ processed_sheets = <<>>
    /\ errors = {} /\ new_order = <<>> /\ i = 0 /\ saved = <<>> /\ pc = "idle"

-----------------------------------------------------------------------------
(* SpecName: get_sheet_name_from_filename on one file the discoverer accepts *)

NameDirs == {"", "exports/"}

LongStem == "RVTools_tab" \o Repeat("x", 29) \o "[y]:z*w"

NameStems ==
    {"RVTools_tabvInfo", "RVTools_tabv.csvInfo", "RVTools_tab", "vInfo",
     "notes.v1", "", "RVTools_tabv[CPU]:*?\\", "rvtools_tabvHost",
     LongStem, Repeat("a", 40)}

\* the spellings of the extension that file.lower().endswith('.csv') accepts
NameExts == {".csv", ".CSV", ".Csv"}

NamePrefixes == {"RVTools_tab", "", "Export_"}

NameInit ==
    /\ filename \in {d \o s \o e : d \in NameDirs, s \in NameStems, e \in NameExts}
    /\ name_prefix \in NamePrefixes
    /\ base_name = "" /\ raw_name = "" /\ sheet_name = ""
    /\ name_pc = "call"
    /\ FindIdle /\ LoadIdle /\ SheetIdle /\ ConvIdle

GetSheetName ==
    /\ name_pc = "call"
    /\ base_name' = Basename(filename)
    /\ raw_name' = RawSheetName(Basename(filename), name_prefix)
    /\ sheet_name' = get_sheet_name_from_filename(filename, name_prefix)
    /\ name_pc' = "done"
    /\ UNCHANGED <<filename, name_prefix, findVars, loadVars, sheetVars, convVars>>

NameNext == GetSheetName

SpecName == NameInit /\ [][NameNext]_vars

\* C4: the name get_sheet_name_from_filename returns has at most 31
\* characters and none of the characters [ ] : * ? / \ (it is computed from
\* filename and prefix alone: GetSheetName reads nothing else).
C4_NameValid ==
    name_pc = "done" =>
        /\ Len(sheet_name) <= 31
        /\ \A k \in 1..Len(sheet_name) :
               CharAt(sheet_name, k) \notin {"[", "]", ":", "*", "?", "/", "\\"}

\* C4 witness: a name longer than 31 characters holding forbidden characters
\* on both sides of the cut has been converted.
C4_Witness ==
    /\ name_pc = "done"
    /\ Len(raw_name) > 31
    /\ \E k \in 1..31 : CharAt(raw_name, k) \in InvalidChars
    /\ \E k \in 32..Len(raw_name) : CharAt(raw_name, k) \in InvalidChars
    /\ Len(sheet_name) = 31

\* What C5 states: prefix removed when the base name starts with it, then
\* exactly the trailing four-character extension removed.
ExpectedRawName(base, pfx) ==
    LET rest == IF StartsWith(base, pfx) THEN Drop(base, Len(pfx)) ELSE base
    IN  Take(rest, Len(rest) - 4)

\* C5: for a file the discoverer accepts, the name before sanitizing is the
\* base name without the prefix and without exactly its trailing extension,
\* whatever the extension's letter case.
C5_ExtensionRemoved ==
    (name_pc = "done" /\ EndsWith(Lower(base_name), ".csv")) =>
        raw_name = ExpectedRawName(base_name, name_prefix)

-----------------------------------------------------------------------------
(* find_csv_files and main *)

\* prefix=None and prefix=<a string>
None == <<>>
Some(p) == <<p>>

\* lines 68-69 and 73-74: the test a directory entry passes
Accepted(file, pfx) ==
    /\ EndsWith(Lower(file), ".csv")
    /\ (pfx = None \/ StartsWith(file, pfx[1]))

\* the entries of `names` that pass the test, each joined to `root`
RECURSIVE Matching(_, _, _)
Matching(root, names, pfx) ==
    IF names = <<>> THEN <<>>
    ELSE (IF Accepted(Head(names), pfx) THEN <<root \o "/" \o Head(names)>> ELSE <<>>)
         \o Matching(root, Tail(names), pfx)

\* The directory is [exists, files, subfiles]: the file names of the root
\* in listing order, and those of its one subdirectory "sub".
InputPath == "in"

\* os.walk(directory): the root, then its subdirectory; a directory that
\* cannot be listed yields nothing (onerror=None ignores the OSError)
Walk(dir) ==
    IF dir.exists
    THEN <<[root |-> InputPath, files |-> dir.files],
           [root |-> InputPath \o "/sub", files |-> dir.subfiles]>>
    ELSE <<>>

RECURSIVE MatchingWalk(_, _)
MatchingWalk(walk, pfx) ==
    IF walk = <<>> THEN <<>>
    ELSE Matching(Head(walk).root, Head(walk).files, pfx)
         \o MatchingWalk(Tail(walk), pfx)

\* the value or the exception a call ends with
Returned(v) == [raised |-> "", value |-> v]
Raised(e) == [raised |-> e, value |-> <<>>]

\* lines 58-80; os.listdir raises FileNotFoundError on a missing directory
find_csv_files(dir, rec, pfx) ==
    IF rec
    THEN Returned(MatchingWalk(Walk(dir), pfx))
    ELSE IF dir.exists
         THEN Returned(Matching(InputPath, dir.files, pfx))
         ELSE Raised("FileNotFoundError")

\* bound on the number of entries listed per directory
MaxEntries == 2

RootNames == {"RVTools_tabvInfo.csv", "RVTools_tabvHost.CSV", "notes.csv", "readme.txt"}
SubNames == {"RVTools_tabvDisk.csv", "old.txt"}

\* the orderings of up to n distinct members of S
Listings(S, n) ==
    {q \in UNION {[1..k -> S] : k \in 0..n} :
        \A a, b \in 1..Len(q) : a /= b => q[a] /= q[b]}

Directories ==
    {[exists |-> TRUE, files |-> f, subfiles |-> g] :
        f \in Listings(RootNames, MaxEntries), g \in Listings(SubNames, MaxEntries)}
    \cup {[exists |-> FALSE, files |-> <<>>, subfiles |-> <<>>]}

FindInit ==
    /\ directory \in Directories
    /\ recursive \in BOOLEAN
    /\ find_prefix \in {"RVTools_tab", ""}
    /\ find_result = <<>> /\ main_out = "" /\ find_pc = "call"
    /\ NameIdle /\ LoadIdle /\ SheetIdle /\ ConvIdle

\* lines 350-355: main calls find_csv_files
MainFind ==
    /\ find_pc = "call"
    /\ LET r == find_csv_files(directory, recursive,
                               IF find_prefix /= "" THEN Some(find_prefix) ELSE None)
       IN  /\ find_result' = r
           /\ find_pc' = IF r.raised = "" THEN "returned" ELSE "raised"
    /\ UNCHANGED <<directory, recursive, find_prefix, main_out,
                   nameVars, loadVars, sheetVars, convVars>>

\* lines 357-359
MainNoFiles ==
    /\ find_pc = "returned" /\ find_result.value = <<>>
    /\ main_out' = "No CSV files found"
    /\ find_pc' = "exit"
    /\ UNCHANGED <<directory, recursive, find_prefix, find_result,
                   nameVars, loadVars, sheetVars, convVars>>

\* lines 361-371
MainConvert ==
    /\ find_pc = "returned" /\ find_result.value /= <<>>
    /\ main_out' = "Found CSV files to convert"
    /\ find_pc' = "exit"
    /\ UNCHANGED <<directory, recursive, find_prefix, find_result,
                   nameVars, loadVars, sheetVars, convVars>>

\* the exception of find_csv_files is caught nowhere in main
MainUncaught ==
    /\ find_pc = "raised"
    /\ main_out' = find_result.raised
    /\ find_pc' = "exit"
    /\ UNCHANGED <<directory, recursive, find_prefix, find_result,
                   nameVars, loadVars, sheetVars, convVars>>

FindNext == MainFind \/ MainNoFiles \/ MainConvert \/ MainUncaught

SpecFind == FindInit /\ [][FindNext]_vars

\* C9: when the input directory does not exist, file discovery fails with a
\* filesystem error for either value of the recursive flag, and the run
\* never reports "No CSV files found".
C9_MissingDirectoryFails ==
    (~directory.exists /\ find_pc \in {"returned", "raised", "exit"}) =>
        /\ find_result.raised = "FileNotFoundError"
        /\ main_out /= "No CSV files found"

-----------------------------------------------------------------------------
(* Cell values: what pandas hands over and what openpyxl stores *)

StrV(s)  == [t |-> "str",  s |-> s,  n |-> 0, b |-> FALSE]
NumV(n)  == [t |-> "int",  s |-> "", n |-> n, b |-> FALSE]
BoolV(b) == [t |-> "bool", s |-> "", n |-> 0, b |-> b]
\* a float, kept by its repr
FloatV(r) == [t |-> "float", s |-> r, n |-> 0, b |-> FALSE]
\* the missing value of pandas (float nan)
NaN      == [t |-> "nan",  s |-> "", n |-> 0, b |-> FALSE]
\* the value of a cell never written
NoneV    == [t |-> "None", s |-> "", n |-> 0, b |-> FALSE]
\* datetime.now()
NowV     == [t |-> "datetime", s |-> "now", n |-> 0, b |-> FALSE]

\* str(value)
PyStr(v) ==
    CASE v.t = "str"   -> v.s
      [] v.t = "int"   -> IntToStr(v.n)
      [] v.t = "bool"  -> IF v.b THEN "True" ELSE "False"
      [] v.t = "float" -> v.s
      [] v.t = "nan"   -> "nan"
      [] v.t = "datetime" -> v.s
      [] OTHER         -> "None"

\* bool(value): the test of `if cell.value:`
Truthy(v) ==
    CASE v.t = "str"   -> v.s /= ""
      [] v.t = "int"   -> v.n /= 0
      [] v.t = "bool"  -> v.b
      [] v.t = "None"  -> FALSE
      [] OTHER         -> TRUE

\* value == '<literal>'
EqStr(v, lit) == v.t = "str" /\ v.s = lit

\* isinstance(value, bool)
IsBool(v) == v.t = "bool"

-----------------------------------------------------------------------------
(* clean_csv_data *)

\* A file is [path, bad_byte, quote, tok, columns, data]:
\*   bad_byte  where its first byte that is not UTF-8 lies: "none", in the
\*             part open(...).read(4096) decodes ("sample"), or "later"
\*   quote     whether the first 4096 characters hold a '"'
\*   tok       the quoting modes under which the tokenizer accepts the file
\*   columns, data   the header names and the rows it parses to
QuoteModes == {"default", "escape", "none"}

\* lines 179-182, 197-200: the quoting arguments chosen from has_quotes
QuoteMode(has_quotes) == IF has_quotes THEN "escape" ELSE "default"

\* pd.read_csv(csv_file, encoding=..., <quoting arguments>)
read_csv(file, encoding, mode) ==
    IF encoding = "utf-8" /\ file.bad_byte /= "none" THEN Raised("UnicodeDecodeError")
    ELSE IF mode \notin file.tok THEN Raised("ParserError")
    ELSE Returned([columns |-> file.columns, data |-> file.data])

\* df.columns = [col.strip() for col in df.columns]
StripColumns(t) ==
    [t EXCEPT !.columns = [k \in 1..Len(t.columns) |-> Strip(t.columns[k])]]

\* lines 213-224: the last resort, read_csv(csv_file, quoting=3)
LastResort(file, calls) ==
    LET call == [encoding |-> "utf-8", mode |-> "none"]
        r == read_csv(file, call.encoding, call.mode)
    IN  [df |-> IF r.raised = "" THEN Some(StripColumns(r.value)) ELSE None,
         calls |-> Append(calls, call)]

\* lines 196-211: has_quotes is <<>> while the local is unbound; reading it
\* then raises UnboundLocalError, which `except Exception as e2` catches
Latin1Retry(file, has_quotes, calls) ==
    IF has_quotes = <<>> THEN LastResort(file, calls)
    ELSE LET call == [encoding |-> "latin1", mode |-> QuoteMode(has_quotes[1])]
             r == read_csv(file, call.encoding, call.mode)
         IN  IF r.raised = ""
             THEN [df |-> Some(StripColumns(r.value)), calls |-> Append(calls, call)]
             ELSE LastResort(file, Append(calls, call))

\* lines 168-224: returns the table (or None) and, for the record, the
\* read_csv calls made
clean_csv_data(file) ==
    IF file.bad_byte = "sample"
    THEN \* f.read(4096) raises before has_quotes is assigned
         Latin1Retry(file, <<>>, <<>>)
    ELSE LET has_quotes == file.quote
             call == [encoding |-> "utf-8", mode |-> QuoteMode(has_quotes)]
             r == read_csv(file, call.encoding, call.mode)
         IN  IF r.raised = ""
             THEN [df |-> Some(StripColumns(r.value)), calls |-> <<call>>]
             ELSE Latin1Retry(file, <<has_quotes>>, <<call>>)

LoadTables ==
    {[columns |-> <<" VM ", "Powerstate">>,
      data |-> << <<StrV("abc"), StrV("poweredOff")>> >>],
     [columns |-> <<"Config status">>, data |-> <<>>]}

LoadFiles ==
    {[path |-> "in/RVTools_tabvInfo.csv", bad_byte |-> bb, quote |-> q, tok |-> tk,
      columns |-> t.columns, data |-> t.data] :
        bb \in {"none", "sample", "later"}, q \in BOOLEAN,
        tk \in SUBSET QuoteModes, t \in LoadTables}

LoadInit ==
    /\ csv_file \in LoadFiles
    /\ load_result = <<>> /\ load_pc = "call"
    /\ NameIdle /\ FindIdle /\ SheetIdle /\ ConvIdle

LoadFile ==
    /\ load_pc = "call"
    /\ load_result' = clean_csv_data(csv_file)
    /\ load_pc' = "done"
    /\ UNCHANGED <<csv_file, nameVars, findVars, sheetVars, convVars>>

LoadNext == LoadFile

SpecLoad == LoadInit /\ [][LoadNext]_vars

\* C3: whenever the UTF-8 attempt fails, while reading the sample or while
\* parsing, the second read_csv call decodes as Latin-1 with the quoting the
\* sample's quote test selects; the loader returns a table when that parse
\* succeeds, and quoting is disabled only after that parse has failed.
C3_Latin1Retry ==
    LET mode == QuoteMode(csv_file.quote)
        utf8Fails == csv_file.bad_byte /= "none" \/ mode \notin csv_file.tok
        latin1 == [encoding |-> "latin1", mode |-> mode]
        calls == load_result.calls
    IN  (load_pc = "done" /\ utf8Fails) =>
            /\ InSeq(latin1, calls)
            /\ (mode \in csv_file.tok => load_result.df /= None)
            /\ (\E k \in 1..Len(calls) : calls[k].mode = "none")
                   => mode \notin csv_file.tok

-----------------------------------------------------------------------------
(* Worksheets: a sparse grid of cells, as openpyxl keeps it *)

\* Font(name=..., size=..., bold=..., color=...)
Font(name, size, bold, color) ==
    [name |-> name, size |-> size, bold |-> bold, color |-> color]

\* a cell as worksheet.cell(row, column) creates it
DefaultCell ==
    [value |-> NoneV, font |-> Font("Calibri", 11, FALSE, "theme"),
     fill |-> "none", alignment |-> "general"]

Rows(ws) == {q[1] : q \in DOMAIN ws.cells}
Cols(ws) == {q[2] : q \in DOMAIN ws.cells}

SetMax(S) == CHOOSE m \in S : \A x \in S : x <= m

\* worksheet.max_row, worksheet.max_column (1 for an empty sheet)
MaxRow(ws) == IF DOMAIN ws.cells = {} THEN 1 ELSE SetMax(Rows(ws))
MaxCol(ws) == IF DOMAIN ws.cells = {} THEN 1 ELSE SetMax(Cols(ws))

\* worksheet.cell(row=r, column=c), created when absent
CellOf(ws, r, c) ==
    IF <<r, c>> \in DOMAIN ws.cells THEN ws.cells[<<r, c>>] ELSE DefaultCell

\* the grid with cell (r, c) replaced by x
PutCell(cells, r, c, x) ==
    [q \in DOMAIN cells \cup {<<r, c>>} |-> IF q = <<r, c>> THEN x ELSE cells[q]]

\* openpyxl's ILLEGAL_CHARACTERS_RE: assigning a string with a control
\* character (here the form feed) raises IllegalCharacterError
Illegal(v) ==
    v.t = "str" /\ \E k \in 1..Len(v.s) : CharAt(v.s, k) = "\f"

\* `cell = worksheet.cell(row, column)` then `cell.value = value` for each
\* of `writes` in turn, stopping at the first assignment that raises
RECURSIVE WriteAll(_, _)
WriteAll(cells, writes) ==
    IF writes = <<>> THEN [cells |-> cells, raised |-> ""]
    ELSE LET w == Head(writes)
             made == PutCell(cells, w.row, w.col,
                             IF <<w.row, w.col>> \in DOMAIN cells
                             THEN cells[<<w.row, w.col>>] ELSE DefaultCell)
         IN  IF Illegal(w.value)
             THEN [cells |-> made, raised |-> "IllegalCharacterError"]
             ELSE WriteAll(PutCell(made, w.row, w.col,
                                   [made[<<w.row, w.col>>] EXCEPT !.value = w.value]),
                           Tail(writes))

\* line 269 with the header row forgotten (a faulty variant)
DataRowOffByOne(row_idx) == row_idx + 1

\* line 269: row=row_idx + 2, for the 0-based row_idx of df.iterrows()
DataRow(row_idx) == row_idx + 2

\* lines 262-264: the header writes, left to right
HeaderWrites(t) ==
    [c \in 1..Len(t.columns) |-> [row |-> 1, col |-> c, value |-> StrV(t.columns[c])]]

\* lines 267-270: the data writes, row by row, left to right
RECURSIVE DataWrites(_, _)
DataWrites(t, r) ==
    IF r > Len(t.data) THEN <<>>
    ELSE [c \in 1..Len(t.data[r]) |->
             [row |-> DataRow(r - 1), col |-> c, value |-> t.data[r][c]]]
         \o DataWrites(t, r + 1)

\* lines 261-270
WriteCells(ws, t) ==
    LET w == WriteAll(ws.cells, HeaderWrites(t) \o DataWrites(t, 1))
    IN  [sheet |-> [ws EXCEPT !.cells = w.cells], raised |-> w.raised]

\* the sheet with the cells of rows lo..hi, all columns, created when
\* absent: what iterating over worksheet rows or columns leaves behind
Touch(ws, lo, hi) ==
    [ws EXCEPT !.cells =
        [q \in DOMAIN ws.cells \cup ((lo..hi) \X (1..MaxCol(ws))) |->
            CellOf(ws, q[1], q[2])]]

\* lines 102-104 and 108-110: the style of a header cell
HeaderStyle(cell) ==
    [cell EXCEPT !.font = Font("Verdana", 9, TRUE, "FFFFFF"),
                 !.fill = "000000", !.alignment = "left"]

\* lines 99-110
apply_header_formatting(ws) ==
    LET grid == Touch(ws, 1, 1)
    IN  [grid EXCEPT !.cells =
            [q \in DOMAIN grid.cells |->
                IF q[1] = 1 THEN HeaderStyle(grid.cells[q]) ELSE grid.cells[q]]]

\* line 115
DataFont == Font("Verdana", 9, FALSE, "none")

\* line 128 with the test of the value left out (a faulty variant)
PowerstateAlwaysRed(column_name, value) == EqStr(column_name, "Powerstate")

\* line 128
PowerstateRed(column_name, value) ==
    EqStr(column_name, "Powerstate") /\ EqStr(value, "poweredOff")

\* lines 132-138: the font the Config status rule leaves, given the font so far
ConfigStatusFont(column_name, value, font) ==
    IF EqStr(column_name, "Config status")
    THEN CASE EqStr(value, "green")  -> Font("Verdana", 9, FALSE, "008000")
           [] EqStr(value, "red")    -> Font("Verdana", 9, FALSE, "FF0000")
           [] EqStr(value, "yellow") -> Font("Verdana", 9, FALSE, "FFA500")
           [] OTHER -> font
    ELSE font

\* lines 141-142
BoolToStr(value) == IF IsBool(value) THEN StrV(PyStr(value)) ELSE value

\* lines 121-142: one data cell under the header value column_name
DataStyle(cell, column_name) ==
    LET font1 == IF PowerstateRed(column_name, cell.value)
                 THEN Font("Verdana", 9, FALSE, "FF0000")
                 ELSE DataFont
    IN  [cell EXCEPT
            !.font = ConfigStatusFont(column_name, cell.value, font1),
            !.alignment = "left",
            !.value = BoolToStr(cell.value)]

\* lines 112-142
apply_data_formatting(ws) ==
    LET grid == Touch(ws, 2, MaxRow(ws))
    IN  [grid EXCEPT !.cells =
            [q \in DOMAIN grid.cells |->
                IF q[1] >= 2
                THEN DataStyle(grid.cells[q], CellOf(ws, 1, q[2]).value)
                ELSE grid.cells[q]]]

\* lines 147-158: max_length of column c
MaxLength(ws, c) ==
    LET lens == {IF Truthy(CellOf(ws, r, c).value)
                 THEN Len(PyStr(CellOf(ws, r, c).value)) ELSE 0 : r \in 1..MaxRow(ws)}
    IN  SetMax(lens \cup {0})

\* lines 161-165 without the minimum width (a faulty variant)
AdjustedWidthNoFloor(max_length) ==
    IF max_length + 2 > 100 THEN 100 ELSE max_length + 2

\* lines 161-165
AdjustedWidth(max_length) ==
    LET adjusted_width == max_length + 2
    IN  IF adjusted_width > 100 THEN 100
        ELSE IF adjusted_width < 8 THEN 8
        ELSE adjusted_width

\* lines 144-166: worksheet.columns creates the cells of the whole grid
auto_adjust_column_width(ws) ==
    LET grid == Touch(ws, 1, MaxRow(ws))
    IN  [grid EXCEPT !.widths =
            [c \in 1..MaxCol(ws) |-> AdjustedWidth(MaxLength(ws, c))]]

\* line 281
FreezeHeader(ws) == [ws EXCEPT !.freeze_panes = "A2"]

\* lines 276-281
StyleSheet(ws) ==
    FreezeHeader(auto_adjust_column_width(
                     apply_data_formatting(apply_header_formatting(ws))))

-----------------------------------------------------------------------------
(* SpecSheet: one loaded table transcribed into one sheet and styled *)

\* bound on the number of data rows of a table
MaxRows == 2

LongText == Repeat("x", 500)

\* the values a column of each name may hold
ColumnValues(name) ==
    CASE name = "Powerstate" ->
            {StrV("poweredOff"), StrV("poweredOn"), StrV("green"), BoolV(TRUE)}
      [] name = "Config status" ->
            {StrV("green"), StrV("red"), StrV("yellow"), StrV("poweredOff"),
             BoolV(FALSE)}
      [] OTHER ->
            {StrV("abc"), StrV(LongText), StrV("a\fb"), NaN, NumV(0), BoolV(FALSE)}

Layouts ==
    {<<"Powerstate">>, <<"Config status">>, <<"VM", "OS">>,
     <<"VM", "Powerstate">>, <<"Powerstate", "Config status">>}

\* the rows a table with the columns `cols` may hold
RowsOf(cols) ==
    {row \in [1..Len(cols) -> UNION {ColumnValues(cols[c]) : c \in 1..Len(cols)}] :
        \A c \in 1..Len(cols) : row[c] \in ColumnValues(cols[c])}

SheetInit ==
    /\ \E cols \in Layouts : \E n \in 0..MaxRows : \E d \in [1..n -> RowsOf(cols)] :
          df = [columns |-> cols, data |-> d]
    /\ worksheet = NewSheet("vInfo", 1)
    /\ sheet_pc = "write"
    /\ NameIdle /\ FindIdle /\ LoadIdle /\ ConvIdle

\* lines 261-270; an exception leaves the try block (lines 286-291)
WriteSheet ==
    /\ sheet_pc = "write"
    /\ LET w == WriteCells(worksheet, df)
       IN  /\ worksheet' = w.sheet
           /\ sheet_pc' = IF w.raised = "" THEN "header" ELSE "raised"
    /\ UNCHANGED <<df, nameVars, findVars, loadVars, convVars>>

ApplyHeaderFormatting ==
    /\ sheet_pc = "header"
    /\ worksheet' = apply_header_formatting(worksheet)
    /\ sheet_pc' = "data"
    /\ UNCHANGED <<df, nameVars, findVars, loadVars, convVars>>

ApplyDataFormatting ==
    /\ sheet_pc = "data"
    /\ worksheet' = apply_data_formatting(worksheet)
    /\ sheet_pc' = "width"
    /\ UNCHANGED <<df, nameVars, findVars, loadVars, convVars>>

AutoAdjustColumnWidth ==
    /\ sheet_pc = "width"
    /\ worksheet' = auto_adjust_column_width(worksheet)
    /\ sheet_pc' = "freeze"
    /\ UNCHANGED <<df, nameVars, findVars, loadVars, convVars>>

FreezePanes ==
    /\ sheet_pc = "freeze"
    /\ worksheet' = FreezeHeader(worksheet)
    /\ sheet_pc' = "done"
    /\ UNCHANGED <<df, nameVars, findVars, loadVars, convVars>>

SheetNext ==
    \/ WriteSheet
    \/ ApplyHeaderFormatting
    \/ ApplyDataFormatting
    \/ AutoAdjustColumnWidth
    \/ FreezePanes

SpecSheet == SheetInit /\ [][SheetNext]_vars

NRows == Len(df.data)
NCols == Len(df.columns)

\* C6: once a table of N rows and M columns is transcribed and styled, its
\* sheet has exactly N+1 rows and M columns, row 1 holds the column names,
\* and every data cell holds the source value of its row and column, a
\* boolean source value being replaced by the string "True" or "False".
C6_RoundTrip ==
    sheet_pc \in {"width", "freeze", "done"} =>
        /\ MaxRow(worksheet) = NRows + 1
        /\ MaxCol(worksheet) = NCols
        /\ DOMAIN worksheet.cells = (1..(NRows + 1)) \X (1..NCols)
        /\ \A c \in 1..NCols :
              worksheet.cells[<<1, c>>].value = StrV(df.columns[c])
        /\ \A r \in 1..NRows : \A c \in 1..NCols :
              LET src == df.data[r][c]
                  got == worksheet.cells[<<r + 1, c>>].value
              IN  IF src.t = "bool"
                  THEN got = StrV(IF src.b THEN "True" ELSE "False")
                  ELSE got = src

\* C6 witness: a styled sheet of two data rows and two columns with a
\* boolean source value in a column that has no rule of its own.
C6_Witness ==
    /\ sheet_pc = "done"
    /\ NRows = 2 /\ NCols = 2
    /\ df.columns[1] = "VM"
    /\ df.data[2][1] = BoolV(FALSE)
    /\ df.data[1][2] = BoolV(TRUE)

\* C7: after apply_data_formatting a data cell under the header
\* "Powerstate" has the red font exactly when its value is "poweredOff";
\* under any other value it keeps the plain data font.
C7_PowerstateRed ==
    sheet_pc \in {"width", "freeze", "done"} =>
        \A q \in DOMAIN worksheet.cells :
            (q[1] >= 2 /\ worksheet.cells[<<1, q[2]>>].value = StrV("Powerstate")) =>
                LET cell == worksheet.cells[q]
                IN  /\ cell.font.color = "FF0000" <=> cell.value = StrV("poweredOff")
                    /\ cell.value /= StrV("poweredOff") =>
                           cell.font = Font("Verdana", 9, FALSE, "none")

\* C7 witness: a Powerstate column holding "poweredOff" in one row and
\* another value in the next has been formatted.
C7_Witness ==
    /\ sheet_pc = "width"
    /\ \E c \in 1..NCols :
          /\ df.columns[c] = "Powerstate"
          /\ NRows = 2
          /\ df.data[1][c] = StrV("poweredOff")
          /\ df.data[2][c] = StrV("green")

\* the longest string form among the non-empty cells of column c: a cell
\* is empty when it holds nothing or the empty string
LongestIn(ws, c) ==
    SetMax({0} \cup
           {Len(PyStr(ws.cells[q].value)) :
               q \in {x \in DOMAIN ws.cells :
                         x[2] = c /\ ws.cells[x].value.t /= "None"}})

\* C8: after auto_adjust_column_width every column's width is
\* min(100, max(8, L + 2)) for L the longest string form among the column's
\* non-empty cells, header included: always within 8..100, 8 when L is 3
\* and 100 when L is 500.
C8_ColumnWidth ==
    sheet_pc \in {"freeze", "done"} =>
        /\ Len(worksheet.widths) = NCols
        /\ \A c \in 1..NCols :
              LET L == LongestIn(worksheet, c)
                  w == worksheet.widths[c]
              IN  /\ w = Min2(100, Max2(8, L + 2))
                  /\ w >= 8 /\ w <= 100
                  /\ (L = 3 => w = 8)
                  /\ (L = 500 => w = 100)

\* C8 witness: widths were set for a sheet with one column whose longest
\* value has 500 characters and another whose longest value has 3.
C8_Witness ==
    /\ sheet_pc = "freeze"
    /\ \E c \in 1..NCols : LongestIn(worksheet, c) = 500 /\ worksheet.widths[c] = 100
    /\ \E c \in 1..NCols : LongestIn(worksheet, c) = 3 /\ worksheet.widths[c] = 8

-----------------------------------------------------------------------------
(* convert_csv_to_excel *)

\* lines 40-45
STANDARD_SHEET_ORDER ==
    <<"vInfo", "vCPU", "vMemory", "vDisk", "vPartition", "vNetwork", "vCD", "vUSB",
      "vSnapshot", "vTools", "vSource", "vRP", "vCluster", "vHost", "vHBA", "vNIC",
      "vSwitch", "vPort", "dvSwitch", "dvPort", "vSC_VMK", "vDatastore", "vMultiPath",
      "vLicense", "vFileInfo", "vHealth", "vMetaData">>

\* workbook.sheetnames
SheetNames(wb) == [k \in 1..Len(wb) |-> wb[k].title]

\* openpyxl's avoid_duplicate_name: a title some sheet already has (letter
\* case ignored) gets the next free number appended
avoid_duplicate_name(names, value) ==
    IF \E k \in 1..Len(names) : Lower(names[k]) = Lower(value)
    THEN LET counts == {n \in 1..Len(names) :
                           \E k \in 1..Len(names) :
                               Lower(names[k]) = Lower(value \o IntToStr(n))}
         IN  value \o IntToStr(SetMax(counts \cup {0}) + 1)
    ELSE value

\* workbook.create_sheet(title=...): an empty title falls back to "Sheet";
\* the sheet is appended
create_sheet(wb, title, source) ==
    LET wanted == IF title = "" THEN "Sheet" ELSE title
    IN  Append(wb, NewSheet(avoid_duplicate_name(SheetNames(wb), wanted), source))

\* workbook.move_sheet(sheet, offset): the sheet leaves its index idx and is
\* inserted at idx + offset (list.insert puts it last when that is past the end)
move_sheet(wb, name, offset) ==
    LET at == CHOOSE k \in 1..Len(wb) :
                  wb[k].title = name /\ \A j \in 1..(k - 1) : wb[j].title /= name
        rest == SubSeq(wb, 1, at - 1) \o SubSeq(wb, at + 1, Len(wb))
        new_pos == Min2((at - 1) + offset, Len(rest))
    IN  SubSeq(rest, 1, new_pos) \o <<wb[at]>> \o SubSeq(rest, new_pos + 1, Len(rest))

\* lines 297-307
MetadataSheet(ws) ==
    [ws EXCEPT !.cells =
        WriteAll(ws.cells,
                 <<[row |-> 1, col |-> 1, value |-> StrV("RVTools major version")],
                   [row |-> 1, col |-> 2, value |-> StrV("RVTools version")],
                   [row |-> 1, col |-> 3, value |-> StrV("xlsx creation datetime")],
                   [row |-> 1, col |-> 4, value |-> StrV("Server")],
                   [row |-> 2, col |-> 1, value |-> FloatV("4.4")],
                   [row |-> 2, col |-> 2, value |-> StrV("4.4.5.0")],
                   [row |-> 2, col |-> 3, value |-> NowV],
                   [row |-> 2, col |-> 4,
                    value |-> StrV("Converted by RVTools CSV2Excel Tool")]>>).cells]

\* lines 314-317
CanonicalPart(processed) ==
    SelectSeq(STANDARD_SHEET_ORDER,
              LAMBDA sheet : InSeq(sheet, processed) \/ sheet = "vMetaData")

\* lines 320-322
RECURSIVE AppendMissing(_, _)
AppendMissing(order, processed) ==
    IF processed = <<>> THEN order
    ELSE AppendMissing(IF InSeq(Head(processed), order) THEN order
                       ELSE Append(order, Head(processed)),
                       Tail(processed))

\* lines 313-326
NewOrder(processed) ==
    LET order == AppendMissing(CanonicalPart(processed), processed)
    IN  IF InSeq("vMetaData", order) THEN order ELSE Append(order, "vMetaData")

\* bound on the number of files converted in one run
MaxFiles == 3

\* a readable file of one column and one data row
GoodFile(path, value) ==
    [path |-> path, bad_byte |-> "none", quote |-> FALSE, tok |-> QuoteModes,
     columns |-> <<"VM">>, data |-> << <<value>> >>]

\* The files a run may be given: five sound exports, the same export name
\* in a subdirectory, one whose data cannot be written to a cell, and one
\* no reading attempt can parse.
Catalogue ==
    {GoodFile("in/RVTools_tabvInfo.csv", StrV("vm1")),
     GoodFile("in/RVTools_tabvCPU.csv", NumV(4)),
     GoodFile("in/RVTools_tabvMemory.csv", NumV(8)),
     GoodFile("in/RVTools_tabvNetwork.csv", BoolV(TRUE)),
     GoodFile("in/RVTools_tabvCustomX.csv", StrV("x")),
     GoodFile("in/sub/RVTools_tabvInfo.csv", StrV("vm2")),
     GoodFile("in/RVTools_tabvHost.csv", StrV("a\fb")),
     [GoodFile("in/RVTools_tabvDisk.csv", StrV("d")) EXCEPT !.tok = {}]}

Init ==
    /\ csv_files \in Listings(Catalogue, MaxFiles)
    /\ prefix \in {"RVTools_tab", ""}
    /\ file_no = 1
    /\ workbook = <<>>
    /\ processed_sheets = <<>>
    /\ errors = {}
    /\ new_order = <<>> /\ i = 0 /\ saved = <<>>
    /\ pc = "files"
    /\ NameIdle /\ FindIdle /\ LoadIdle /\ SheetIdle

\* lines 239-291: one pass of the loop over csv_files
ProcessFile ==
    /\ pc = "files" /\ file_no <= Len(csv_files)
    /\ LET file == csv_files[file_no]
           name == get_sheet_name_from_filename(file.path, prefix)
           loaded == clean_csv_data(file).df
       IN  IF loaded = None
           THEN UNCHANGED <<workbook, processed_sheets, errors>>
           ELSE LET created == create_sheet(workbook, name, file_no)
                    w == WriteCells(created[Len(created)], loaded[1])
                    sheet == IF w.raised = "" THEN StyleSheet(w.sheet) ELSE w.sheet
                IN  /\ workbook' = [created EXCEPT ![Len(created)] = sheet]
                    /\ processed_sheets' = Append(processed_sheets, name)
                    /\ errors' = IF w.raised = "" THEN errors ELSE errors \cup {file_no}
    /\ file_no' = file_no + 1
    /\ UNCHANGED <<csv_files, prefix, new_order, i, saved, pc,
                   nameVars, findVars, loadVars, sheetVars>>

\* lines 297-307
AddMetadata ==
    /\ pc = "files" /\ file_no > Len(csv_files)
    /\ LET created == create_sheet(workbook, "vMetaData", 0)
       IN  workbook' = [created EXCEPT ![Len(created)] = MetadataSheet(@)]
    /\ pc' = "order"
    /\ UNCHANGED <<csv_files, prefix, file_no, processed_sheets, errors, new_order,
                   i, saved, nameVars, findVars, loadVars, sheetVars>>

\* lines 313-326
ComputeOrder ==
    /\ pc = "order"
    /\ new_order' = NewOrder(processed_sheets)
    /\ i' = 0
    /\ pc' = "reorder"
    /\ UNCHANGED <<csv_files, prefix, file_no, workbook, processed_sheets, errors,
                   saved, nameVars, findVars, loadVars, sheetVars>>

\* lines 329-331: one pass of the loop over enumerate(new_order)
ReorderStep ==
    /\ pc = "reorder" /\ i < Len(new_order)
    /\ workbook' = IF InSeq(new_order[i + 1], SheetNames(workbook))
                   THEN move_sheet(workbook, new_order[i + 1], i)
                   ELSE workbook
    /\ i' = i + 1
    /\ UNCHANGED <<csv_files, prefix, file_no, processed_sheets, errors, new_order,
                   saved, pc, nameVars, findVars, loadVars, sheetVars>>

\* line 337
Save ==
    /\ pc = "reorder" /\ i = Len(new_order)
    /\ saved' = workbook
    /\ pc' = "done"
    /\ UNCHANGED <<csv_files, prefix, file_no, workbook, processed_sheets, errors,
                   new_order, i, nameVars, findVars, loadVars, sheetVars>>

Next == ProcessFile \/ AddMetadata \/ ComputeOrder \/ ReorderStep \/ Save

Spec == Init /\ [][Next]_vars

\* the processed names that are not canonical, in processing order
NonCanonical(processed) ==
    SelectSeq(processed, LAMBDA sheet : ~InSeq(sheet, STANDARD_SHEET_ORDER))

\* C1: the saved workbook lists the canonical names that were processed, in
\* canonical order, then the processed names that are not canonical, in
\* processing order, then vMetaData as the last sheet.
C1_SavedOrder ==
    pc = "done" =>
        SheetNames(saved) =
            SelectSeq(STANDARD_SHEET_ORDER,
                      LAMBDA sheet : InSeq(sheet, processed_sheets)
                                     /\ sheet /= "vMetaData")
            \o NonCanonical(processed_sheets)
            \o <<"vMetaData">>

\* the files that were loaded and transcribed without an exception
Transcribed ==
    {k \in 1..Len(csv_files) :
        clean_csv_data(csv_files[k]).df /= None /\ k \notin errors}

\* C2: a file whose transcription or styling raised has no sheet in the
\* saved workbook and its name takes no part in the ordering; the saved
\* workbook holds one sheet per file transcribed without error, plus the
\* metadata sheet.
C2_FailedFileSkipped ==
    pc = "done" =>
        /\ {saved[k].source : k \in 1..Len(saved)} = Transcribed \cup {0}
        /\ Len(saved) = Cardinality(Transcribed) + 1
        /\ Len(processed_sheets) = Cardinality(Transcribed)

\* C10: with distinct sheet names and the metadata sheet created last, once
\* the reorder loop is over the workbook's sheets are in the computed order
\* new_order, none lost and none duplicated.
C10_ReorderMatches ==
    LET names == processed_sheets \o <<"vMetaData">>
        distinct == \A a, b \in 1..Len(names) : a /= b => names[a] /= names[b]
    IN  (pc = "done" /\ distinct) =>
            /\ SheetNames(workbook) = new_order
            /\ Len(workbook) = Len(processed_sheets) + 1

====
